---- MODULE Spec2Model ----
(***************************************************************************)
(* Model of phase2_azure/sample_data/generate_sample_data.py: the sample   *)
(* data generator that seeds two pseudo-random generators, builds the      *)
(* customers, products and orders tables and writes each one to a CSV file.*)
(*                                                                         *)
(* Modelling conventions                                                   *)
(*  - Floating-point amounts are fixed-point integers in mills (1/1000).   *)
(*  - Wall-clock time is an integer number of ticks, TicksPerDay ticks to  *)
(*    the day; a formatted timestamp is the pair (date, time of day).      *)
(*  - A seeded generator is a deterministic function of (seed, position).  *)
(*    Which function it is, is not known to the model: mt holds its        *)
(*    parameters, chosen arbitrarily in Init and never changed. random and *)
(*    numpy run the same algorithm and differ in how they expand the seed: *)
(*    they share the stride mt.mult and each has its own mt.off.           *)
(*  - The script is run twice, one run after the other, so that the        *)
(*    outputs of two runs can be compared.                                 *)
(***************************************************************************)
EXTENDS Integers, Sequences, FiniteSets, TLC

\* ------------------------------------------------------------------------
\* Bounds of the model
\* ------------------------------------------------------------------------
\* Rows per table (the script uses 100, 50 and 500).
CustomerCount == 2
ProductCount == 2
OrderCount == 2
\* Number of distinct values a single pseudo-random draw can take.
RawLevels == 3
\* Clock resolution and how far the clock can advance in a behaviour.
TicksPerDay == 2
ClockSpan == 1

\* ------------------------------------------------------------------------
\* Constants of the script
\* ------------------------------------------------------------------------
SEED == 42
ClvLow == 100
ClvHigh == 50000
CreatedDaysLow == 1
CreatedDaysHigh == 365
UpdatedDaysLow == 0
UpdatedDaysHigh == 30
ProductPriceLow == 10
ProductPriceHigh == 500
StockLow == 0
StockHigh == 1000
QuantityLow == 1
QuantityHigh == 10
UnitPriceLow == 10
UnitPriceHigh == 200
OrderDaysLow == 1
OrderDaysHigh == 180
\* random.randint(1, 100) and random.randint(1, 50): the literals equal the
\* number of customers and of products, and are scaled with them.
OrderCustomerIdLow == 1
StaleCustomerIdHigh == CustomerCount + 1
OrderCustomerIdHigh == CustomerCount
OrderProductIdLow == 1
OrderProductIdHigh == ProductCount

regions == <<"North", "South", "East", "West">>
statuses == <<"Active", "Inactive", "Churned">>
categories == <<"Electronics", "Clothing", "Home & Garden", "Sports", "Books">>
order_statuses == <<"Completed", "Pending", "Cancelled", "Shipped">>

customers_columns ==
  <<"customer_id", "customer_name", "email", "region", "status",
    "customer_lifetime_value", "created_date", "updated_date">>
products_columns ==
  <<"product_id", "product_name", "category", "unit_price", "stock_quantity",
    "created_date", "updated_at">>
orders_columns ==
  <<"order_id", "customer_id", "product_id", "order_date", "quantity",
    "unit_price", "order_amount", "order_status", "last_modified_date">>

customers_file == <<"phase2_azure/sample_data/customers_full.csv">>
products_file == <<"phase2_azure/sample_data/products_full.csv">>
orders_file(today) == <<"phase2_azure/sample_data/orders_", today, ".csv">>

Runs == {1, 2}
Steps ==
  <<"seed", "gen_customers", "write_customers", "gen_products",
    "write_products", "gen_orders", "write_orders", "done">>
WriteSteps == {"write_customers", "write_products", "write_orders"}
Finished == {"done", "aborted"}

VARIABLES
  count,      \* rows to generate per table (the literals of lines 15, 45, 72)
  mt,         \* the generators' hidden parameters
  now,        \* the wall clock, in ticks
  pc,         \* pc[r]: the statement run r is at
  rnd,        \* rnd[r]: state of the random module's generator
  nprnd,      \* nprnd[r]: state of numpy's global generator
  customers,  \* customers[r]: df_customers
  products,   \* products[r]: df_products
  orders,     \* orders[r]: df_orders
  offsets,    \* offsets[r]: the day offsets drawn for the timestamp columns
  disk,       \* disk[r]: the files in run r's output directory
  stdout,     \* stdout[r]: the lines run r printed
  exc         \* exc[r]: the step whose exception ended run r, or "none"

vars ==
  <<count, mt, now, pc, rnd, nprnd, customers, products, orders, offsets,
    disk, stdout, exc>>

\* ------------------------------------------------------------------------
\* Helpers
\* ------------------------------------------------------------------------
Range(s) == {s[i] : i \in DOMAIN s}

\* The first run is started in the last tick of a day.
ClockStart == CreatedDaysHigh * TicksPerDay + (TicksPerDay - 1)
ClockMax == ClockStart + ClockSpan

\* The value a generator seeded with `seed` returns as its pos-th draw.
Raw(lib, seed, pos) == (seed + mt.off[lib] + mt.mult * pos) % RawLevels

\* A raw draw mapped onto lo..hi, both ends reachable.
Scale(raw, lo, hi) == lo + (raw * (hi - lo)) \div (RawLevels - 1)

\* random.randint(a, b): an integer in a..b, both ends included.
random_randint(raw, a, b) == Scale(raw, a, b)
\* random.choice(seq)
random_choice(raw, seq) == seq[Scale(raw, 1, Len(seq))]
\* np.random.randint(low, high): an integer in low..high-1.
np_randint_inclusive(raw, low, high) == Scale(raw, low, high)
np_randint(raw, low, high) == Scale(raw, low, high - 1)
\* np.random.uniform(low, high): a float in [low, high), here in mills.
np_uniform(raw, low, high) == Scale(raw, low * 1000, high * 1000 - 1)

\* x rounded to the nearest multiple of unit, ties to the even multiple.
RoundTo(x, unit) ==
  LET q == x \div unit
      rem == x % unit
  IN  IF 2 * rem < unit THEN q * unit
      ELSE IF 2 * rem > unit THEN (q + 1) * unit
      ELSE IF q % 2 = 0 THEN q * unit ELSE (q + 1) * unit
\* round(x, 2) and ndarray.round(2) on a value in mills.
Round2(x) == RoundTo(x, 10)

\* range(a, b) as a sequence.
py_range_from_zero(a, b) == [i \in 1..(IF b > a THEN b - a ELSE 0) |-> i - 1]
py_range(a, b) == [i \in 1..(IF b > a THEN b - a ELSE 0) |-> a + i - 1]

timedelta(days) == days * TicksPerDay
\* strftime('%Y-%m-%d %H:%M:%S') and strftime('%Y-%m-%d')
strftime(t) == [date |-> t \div TicksPerDay, time |-> t % TicksPerDay]
strftime_date(t) == t \div TicksPerDay
\* Order of two formatted timestamps as strings.
DateLeq(a, b) == a.date < b.date \/ (a.date = b.date /\ a.time <= b.time)

\* The n draws a generator in state st returns after skipping `skip` draws.
Draws(lib, st, skip, n) == [i \in 1..n |-> Raw(lib, st.seed, st.pos + skip + i)]
Consume(st, n) == [st EXCEPT !.pos = @ + n]

\* pd.DataFrame(data), DataFrame.to_csv(index=False) and len(df)
NoFrame == [built |-> FALSE, columns |-> <<>>, data |-> <<>>]
DataFrame(columns, data) == [built |-> TRUE, columns |-> columns, data |-> data]
df_len(df) == Len(df.data[df.columns[1]])
to_csv(df) ==
  [header |-> df.columns,
   rows |-> [i \in 1..df_len(df) |-> [c \in Range(df.columns) |-> df.data[c][i]]]]

EmptyDisk == [n \in {} |-> <<>>]
Put(d, name, content) ==
  [n \in DOMAIN d \cup {name} |-> IF n = name THEN content ELSE d[n]]

\* The statement after `step` in program order.
StepIndex(step) == CHOOSE i \in DOMAIN Steps : Steps[i] = step
SkipProducts(step) ==
  IF step = "write_customers" THEN "gen_orders" ELSE Steps[StepIndex(step) + 1]
Successor(step) == Steps[StepIndex(step) + 1]

\* Where a run is after a statement raised: nothing catches the exception.
ContinueAfterFailure(step) == Successor(step)
AfterFailure(step) == "aborted"

\* The seed both generators are given.
seed_from_clock == now
seed_value == SEED

\* The time the j-th datetime.now() call of a statement returns when the
\* clock ticks after the k-th call.
CallTime(j, k) == now + (IF j > k THEN 1 ELSE 0)

\* order_amount of one row (line 90).
OrderAmountUnitPriceOnly(q, p) == Round2(p)
OrderAmount(q, p) == Round2(q * p)

\* ------------------------------------------------------------------------
\* Initial state: no run has started
\* ------------------------------------------------------------------------
Generators == {"random", "numpy"}
Unseeded == [seed |-> 0, pos |-> 0]
NoOffsets ==
  [customers_created |-> <<>>, customers_updated |-> <<>>,
   products_created |-> <<>>, products_updated |-> <<>>,
   order_date |-> <<>>, last_modified |-> <<>>]

InitRest ==
  /\ mt \in [mult : 0..(RawLevels - 1), off : [Generators -> 0..(RawLevels - 1)]]
  /\ now = ClockStart
  /\ pc = [r \in Runs |-> "idle"]
  /\ rnd = [r \in Runs |-> Unseeded]
  /\ nprnd = [r \in Runs |-> Unseeded]
  /\ customers = [r \in Runs |-> NoFrame]
  /\ products = [r \in Runs |-> NoFrame]
  /\ orders = [r \in Runs |-> NoFrame]
  /\ offsets = [r \in Runs |-> NoOffsets]
  /\ disk = [r \in Runs |-> EmptyDisk]
  /\ stdout = [r \in Runs |-> <<>>]
  /\ exc = [r \in Runs |-> "none"]

Init ==
  /\ count = [customers |-> CustomerCount, products |-> ProductCount,
              orders |-> OrderCount]
  /\ InitRest

\* ------------------------------------------------------------------------
\* Actions
\* ------------------------------------------------------------------------
\* The environment: time passes.
Tick ==
  /\ now < ClockMax
  /\ now' = now + 1
  /\ UNCHANGED <<count, mt, pc, rnd, nprnd, customers, products, orders,
                 offsets, disk, stdout, exc>>

\* The script is started; it is run a second time after a first run that
\* completed.
Launch(r) ==
  /\ pc[r] = "idle"
  /\ \A q \in Runs : q < r => pc[q] = "done"
  /\ pc' = [pc EXCEPT ![r] = "seed"]
  /\ UNCHANGED <<count, mt, now, rnd, nprnd, customers, products, orders,
                 offsets, disk, stdout, exc>>

\* Lines 6-9: np.random.seed(42); random.seed(42)
Seed(r) ==
  /\ pc[r] = "seed"
  /\ nprnd' = [nprnd EXCEPT ![r] = [seed |-> seed_value, pos |-> 0]]
  /\ rnd' = [rnd EXCEPT ![r] = [seed |-> seed_value, pos |-> 0]]
  /\ stdout' = [stdout EXCEPT ![r] = Append(@, <<"Generating sample data...">>)]
  /\ pc' = [pc EXCEPT ![r] = Successor("seed")]
  /\ UNCHANGED <<count, mt, now, customers, products, orders, offsets, disk, exc>>

\* The clock may tick once while a statement makes its `calls` calls of
\* datetime.now(), k of them before the tick. The rows of one column are
\* stamped within one tick: the tick falls between the statement's two
\* timestamp columns (k = calls / 2) or not within the statement (k = calls).
ClockDuring(calls, k) ==
  /\ k \in 0..calls
  /\ k < calls => now < ClockMax
  /\ now' = IF k < calls THEN now + 1 ELSE now

\* Lines 15-36: customers_data and df_customers
GenerateCustomers(r) ==
  /\ pc[r] = "gen_customers"
  /\ \E k \in {count.customers, 2 * count.customers} :
       LET n == count.customers
           customer_ids == py_range(1, n + 1)
           region_raw == Draws("random", rnd[r], 0, n)
           status_raw == Draws("random", rnd[r], n, n)
           clv_raw == Draws("numpy", nprnd[r], 0, n)
           created_raw == Draws("random", rnd[r], 2 * n, n)
           updated_raw == Draws("random", rnd[r], 3 * n, n)
           created_days ==
             [i \in 1..n |-> random_randint(created_raw[i], CreatedDaysLow, CreatedDaysHigh)]
           updated_days ==
             [i \in 1..n |-> random_randint(updated_raw[i], UpdatedDaysLow, UpdatedDaysHigh)]
           customers_data ==
             [customer_id |-> customer_ids,
              customer_name |-> [i \in 1..n |-> <<"Customer_", customer_ids[i]>>],
              email |-> [i \in 1..n |-> <<"customer", customer_ids[i], "@company.com">>],
              region |-> [i \in 1..n |-> random_choice(region_raw[i], regions)],
              status |-> [i \in 1..n |-> random_choice(status_raw[i], statuses)],
              customer_lifetime_value |->
                [i \in 1..n |-> np_uniform(clv_raw[i], ClvLow, ClvHigh)],
              created_date |->
                [i \in 1..n |-> strftime(CallTime(i, k) - timedelta(created_days[i]))],
              updated_date |->
                [i \in 1..n |-> strftime(CallTime(n + i, k) - timedelta(updated_days[i]))]]
       IN  /\ ClockDuring(2 * n, k)
           /\ customers' = [customers EXCEPT ![r] = DataFrame(customers_columns, customers_data)]
           /\ offsets' = [offsets EXCEPT ![r].customers_created = created_days,
                                         ![r].customers_updated = updated_days]
           /\ rnd' = [rnd EXCEPT ![r] = Consume(@, 4 * n)]
           /\ nprnd' = [nprnd EXCEPT ![r] = Consume(@, n)]
  /\ pc' = [pc EXCEPT ![r] = Successor("gen_customers")]
  /\ UNCHANGED <<count, mt, products, orders, disk, stdout, exc>>

\* Lines 45-64: products_data and df_products
GenerateProducts(r) ==
  /\ pc[r] = "gen_products"
  /\ \E k \in {count.products, 2 * count.products} :
       LET n == count.products
           product_ids == py_range(1, n + 1)
           category_raw == Draws("random", rnd[r], 0, n)
           price_raw == Draws("numpy", nprnd[r], 0, n)
           stock_raw == Draws("numpy", nprnd[r], n, n)
           created_raw == Draws("random", rnd[r], n, n)
           updated_raw == Draws("random", rnd[r], 2 * n, n)
           created_days ==
             [i \in 1..n |-> random_randint(created_raw[i], CreatedDaysLow, CreatedDaysHigh)]
           updated_days ==
             [i \in 1..n |-> random_randint(updated_raw[i], UpdatedDaysLow, UpdatedDaysHigh)]
           products_data ==
             [product_id |-> product_ids,
              product_name |-> [i \in 1..n |-> <<"Product_", product_ids[i]>>],
              category |-> [i \in 1..n |-> random_choice(category_raw[i], categories)],
              unit_price |->
                [i \in 1..n |-> np_uniform(price_raw[i], ProductPriceLow, ProductPriceHigh)],
              stock_quantity |->
                [i \in 1..n |-> np_randint(stock_raw[i], StockLow, StockHigh)],
              created_date |->
                [i \in 1..n |-> strftime(CallTime(i, k) - timedelta(created_days[i]))],
              updated_at |->
                [i \in 1..n |-> strftime(CallTime(n + i, k) - timedelta(updated_days[i]))]]
       IN  /\ ClockDuring(2 * n, k)
           /\ products' = [products EXCEPT ![r] = DataFrame(products_columns, products_data)]
           /\ offsets' = [offsets EXCEPT ![r].products_created = created_days,
                                         ![r].products_updated = updated_days]
           /\ rnd' = [rnd EXCEPT ![r] = Consume(@, 3 * n)]
           /\ nprnd' = [nprnd EXCEPT ![r] = Consume(@, 2 * n)]
  /\ pc' = [pc EXCEPT ![r] = Successor("gen_products")]
  /\ UNCHANGED <<count, mt, customers, orders, disk, stdout, exc>>

\* Lines 72-98: quantities, unit_prices, orders_data and df_orders
GenerateOrders(r) ==
  /\ pc[r] = "gen_orders"
  /\ \E k \in {count.orders, 2 * count.orders} :
       LET n == count.orders
           order_ids == py_range(1, n + 1)
           quantity_raw == Draws("numpy", nprnd[r], 0, n)
           price_raw == Draws("numpy", nprnd[r], n, n)
           quantities ==
             [i \in 1..n |-> np_randint(quantity_raw[i], QuantityLow, QuantityHigh)]
           unit_prices ==
             [i \in 1..n |-> Round2(np_uniform(price_raw[i], UnitPriceLow, UnitPriceHigh))]
           customer_raw == Draws("random", rnd[r], 0, n)
           product_raw == Draws("random", rnd[r], n, n)
           date_raw == Draws("random", rnd[r], 2 * n, n)
           status_raw == Draws("random", rnd[r], 3 * n, n)
           modified_raw == Draws("random", rnd[r], 4 * n, n)
           order_days ==
             [i \in 1..n |-> random_randint(date_raw[i], OrderDaysLow, OrderDaysHigh)]
           modified_days ==
             [i \in 1..n |-> random_randint(modified_raw[i], UpdatedDaysLow, UpdatedDaysHigh)]
           orders_data ==
             [order_id |-> order_ids,
              customer_id |->
                [i \in 1..n |->
                   random_randint(customer_raw[i], OrderCustomerIdLow, OrderCustomerIdHigh)],
              product_id |->
                [i \in 1..n |->
                   random_randint(product_raw[i], OrderProductIdLow, OrderProductIdHigh)],
              order_date |->
                [i \in 1..n |-> strftime(CallTime(i, k) - timedelta(order_days[i]))],
              quantity |-> quantities,
              unit_price |-> unit_prices,
              order_amount |-> [i \in 1..n |-> OrderAmount(quantities[i], unit_prices[i])],
              order_status |-> [i \in 1..n |-> random_choice(status_raw[i], order_statuses)],
              last_modified_date |->
                [i \in 1..n |-> strftime(CallTime(n + i, k) - timedelta(modified_days[i]))]]
       IN  /\ ClockDuring(2 * n, k)
           /\ orders' = [orders EXCEPT ![r] = DataFrame(orders_columns, orders_data)]
           /\ offsets' = [offsets EXCEPT ![r].order_date = order_days,
                                         ![r].last_modified = modified_days]
           /\ rnd' = [rnd EXCEPT ![r] = Consume(@, 5 * n)]
           /\ nprnd' = [nprnd EXCEPT ![r] = Consume(@, 2 * n)]
  /\ pc' = [pc EXCEPT ![r] = Successor("gen_orders")]
  /\ UNCHANGED <<count, mt, customers, products, disk, stdout, exc>>

\* to_csv succeeds: the file holds the whole table and the run prints a line.
Created(r, name, df) ==
  /\ disk' = [disk EXCEPT ![r] = Put(@, name, to_csv(df))]
  /\ stdout' = [stdout EXCEPT ![r] = Append(@, <<"Done - Created", name, df_len(df)>>)]

\* Lines 37-38
WriteCustomers(r) ==
  /\ pc[r] = "write_customers"
  /\ Created(r, customers_file, customers[r])
  /\ pc' = [pc EXCEPT ![r] = Successor("write_customers")]
  /\ UNCHANGED <<count, mt, now, rnd, nprnd, customers, products, orders, offsets, exc>>

\* Lines 65-66
WriteProducts(r) ==
  /\ pc[r] = "write_products"
  /\ Created(r, products_file, products[r])
  /\ pc' = [pc EXCEPT ![r] = Successor("write_products")]
  /\ UNCHANGED <<count, mt, now, rnd, nprnd, customers, products, orders, offsets, exc>>

\* Lines 99-107: the file name carries today's date; the closing banner
WriteOrders(r) ==
  /\ pc[r] = "write_orders"
  /\ LET today == strftime_date(now)
         name == orders_file(today)
     IN  /\ disk' = [disk EXCEPT ![r] = Put(@, name, to_csv(orders[r]))]
         /\ stdout' = [stdout EXCEPT ![r] =
              @ \o << <<"Done - Created", name, df_len(orders[r])>>,
                      <<"Sample data generation complete!">> >>]
  /\ pc' = [pc EXCEPT ![r] = Successor("write_orders")]
  /\ UNCHANGED <<count, mt, now, rnd, nprnd, customers, products, orders, offsets, exc>>

\* The table and the destination of the to_csv call of a write step.
FrameAt(r, step) ==
  IF step = "write_customers" THEN customers[r]
  ELSE IF step = "write_products" THEN products[r] ELSE orders[r]
FileAt(step) ==
  IF step = "write_customers" THEN customers_file
  ELSE IF step = "write_products" THEN products_file
  ELSE orders_file(strftime_date(now))

\* to_csv raises (lines 37, 65, 101). Either the destination could not be
\* opened and the directory is as before, or the write stopped part way and
\* the file holds the header and the first k rows.
WriteFails(r) ==
  /\ pc[r] \in WriteSteps
  /\ LET csv == to_csv(FrameAt(r, pc[r]))
     IN  \/ UNCHANGED disk
         \/ \E k \in 0..(Len(csv.rows) - 1) :
              disk' = [disk EXCEPT ![r] =
                Put(@, FileAt(pc[r]), [csv EXCEPT !.rows = SubSeq(csv.rows, 1, k)])]
  /\ exc' = [exc EXCEPT ![r] = pc[r]]
  /\ pc' = [pc EXCEPT ![r] = AfterFailure(pc[r])]
  /\ UNCHANGED <<count, mt, now, rnd, nprnd, customers, products, orders, offsets, stdout>>

RunStep(r) ==
  \/ Seed(r)
  \/ GenerateCustomers(r)
  \/ WriteCustomers(r)
  \/ GenerateProducts(r)
  \/ WriteProducts(r)
  \/ GenerateOrders(r)
  \/ WriteOrders(r)
  \/ WriteFails(r)

Next ==
  \/ Tick
  \/ \E r \in Runs : Launch(r)
  \/ \E r \in Runs : RunStep(r)

Spec == Init /\ [][Next]_vars

\* A run keeps executing its statements until it ends.
FairSpec == Spec /\ \A r \in Runs : WF_vars(RunStep(r))

\* The same script with the row counts as configuration: each table's count
\* is its literal or zero.
InitAnyCount ==
  /\ count \in [customers : {0, CustomerCount}, products : {0, ProductCount},
                orders : {0, OrderCount}]
  /\ InitRest
SpecAnyCount == InitAnyCount /\ [][Next]_vars

\* ------------------------------------------------------------------------
\* Properties
\* ------------------------------------------------------------------------
\* The orders files in run r's output directory, whole or partial.
OrdersFiles(r) == {f \in DOMAIN disk[r] : Len(f) = 3}
OrderRows(r) == UNION {Range(disk[r][f].rows) : f \in OrdersFiles(r)}
\* Run r printed "Done - Created <name>".
CreatedLines(r) ==
  {i \in DOMAIN stdout[r] : Len(stdout[r][i]) = 3 /\ stdout[r][i][1] = "Done - Created"}
Completed(r, name) == \E i \in CreatedLines(r) : stdout[r][i][2] = name
CompletedOrders(r) == {f \in OrdersFiles(r) : Completed(r, f)}
ReportedComplete(r) ==
  \E i \in DOMAIN stdout[r] : stdout[r][i] = <<"Sample data generation complete!">>

\* C1: in every order row written, order_amount is quantity * unit_price of
\* that same row rounded to 2 decimals, and the orders statement draws
\* exactly two numpy values per order (quantity and unit_price): the amount
\* is computed, never drawn.
C1_OrderAmountDerived ==
  \A r \in Runs :
    /\ \A row \in OrderRows(r) :
         row.order_amount = Round2(row.quantity * row.unit_price)
    /\ orders[r].built =>
         /\ \A i \in 1..df_len(orders[r]) :
              orders[r].data.order_amount[i] =
                Round2(orders[r].data.quantity[i] * orders[r].data.unit_price[i])
         /\ nprnd[r].pos = count.customers + 2 * count.products + 2 * count.orders

\* C1 witness: a completed orders file holds a row with a quantity above 1,
\* whose amount therefore differs from its unit price.
C1_Witness ==
  \E r \in Runs : \E f \in CompletedOrders(r) : \E i \in DOMAIN disk[r][f].rows :
    /\ disk[r][f].rows[i].quantity > 1
    /\ disk[r][f].rows[i].order_amount # disk[r][f].rows[i].unit_price

\* C2: every order row references a customer id within 1..(number of
\* customers the same run generated) and a product id within 1..(number of
\* products it generated); randint's range includes both ends, so the range
\* (1, 1) yields only 1.
C2_ReferencesInRange ==
  /\ \A r \in Runs : \A row \in OrderRows(r) :
       /\ 1 <= row.customer_id /\ row.customer_id <= df_len(customers[r])
       /\ 1 <= row.product_id /\ row.product_id <= df_len(products[r])
  /\ \A raw \in 0..(RawLevels - 1) : random_randint(raw, 1, 1) = 1

\* C2 witness: a completed orders file references the last customer in one
\* row and the first product in one row.
C2_Witness ==
  \E r \in Runs : \E f \in CompletedOrders(r) :
    /\ \E row \in Range(disk[r][f].rows) : row.customer_id = df_len(customers[r])
    /\ \E row \in Range(disk[r][f].rows) : row.product_id = 1

\* C3 (as claimed): two completed runs with the same seed and configuration
\* leave byte-identical output: the same files with the same contents.
C3_RunsByteIdentical ==
  (pc[1] = "done" /\ pc[2] = "done") => disk[1] = disk[2]

\* The id column of a table and the number of rows it must have.
IdColumn(columns) == columns[1]
IsDense(ids, n) == Len(ids) = n /\ \A i \in 1..n : ids[i] = i
FrameDense(df, n) ==
  df.built =>
    /\ \A c \in Range(df.columns) : Len(df.data[c]) = n
    /\ IsDense(df.data[IdColumn(df.columns)], n)
FileDense(r, name, n) ==
  Completed(r, name) =>
    /\ Len(disk[r][name].rows) = n
    /\ \A i \in 1..n : disk[r][name].rows[i][IdColumn(disk[r][name].header)] = i

\* C4: in each table, in memory and as written, the id column is 1, 2, ..., N
\* in row order, and every column has N entries, N being the table's count.
C4_DenseIds ==
  \A r \in Runs :
    /\ FrameDense(customers[r], CustomerCount)
    /\ FrameDense(products[r], ProductCount)
    /\ FrameDense(orders[r], OrderCount)
    /\ FileDense(r, customers_file, CustomerCount)
    /\ FileDense(r, products_file, ProductCount)
    /\ \A f \in OrdersFiles(r) : FileDense(r, f, OrderCount)

\* C4 witness: a run has written all three files.
C4_Witness ==
  \E r \in Runs :
    /\ Completed(r, customers_file)
    /\ Completed(r, products_file)
    /\ CompletedOrders(r) # {}
    /\ CustomerCount > 1

C6_UpdatedNotBeforeCreated ==
  \A r \in Runs :
    /\ customers[r].built =>
         \A i \in 1..df_len(customers[r]) :
           DateLeq(customers[r].data.created_date[i], customers[r].data.updated_date[i])
    /\ products[r].built =>
         \A i \in 1..df_len(products[r]) :
           DateLeq(products[r].data.created_date[i], products[r].data.updated_at[i])

\* The statements in the order the script lists them.
ProgramOrder ==
  {<<"idle", "seed">>, <<"seed", "gen_customers">>,
   <<"gen_customers", "write_customers">>, <<"write_customers", "gen_products">>,
   <<"gen_products", "write_products">>, <<"write_products", "gen_orders">>,
   <<"gen_orders", "write_orders">>, <<"write_orders", "done">>}
\* The names of the files run r reported as created, in the order reported.
CreatedNames(r) ==
  LET idx == CreatedLines(r)
      Nth[k \in 1..Cardinality(idx)] ==
        CHOOSE i \in idx : Cardinality({j \in idx : j < i}) = k - 1
  IN  [k \in 1..Cardinality(idx) |-> stdout[r][Nth[k]][2]]

C7_Order ==
  \A r \in Runs :
    \* a file is written from the finished table
    /\ Completed(r, customers_file) =>
         customers[r].built /\ disk[r][customers_file] = to_csv(customers[r])
    /\ Completed(r, products_file) =>
         products[r].built /\ disk[r][products_file] = to_csv(products[r])
    /\ \A f \in CompletedOrders(r) : orders[r].built /\ disk[r][f] = to_csv(orders[r])
    \* a table is built only after the previous table's file is written
    /\ products[r].built => Completed(r, customers_file)
    /\ orders[r].built => Completed(r, products_file)
    \* a completed run wrote the three files, each once, in this order
    /\ pc[r] = "done" =>
         /\ Len(CreatedNames(r)) = 3
         /\ CreatedNames(r)[1] = customers_file
         /\ CreatedNames(r)[2] = products_file
         /\ CreatedNames(r)[3] \in OrdersFiles(r)
         /\ exc[r] = "none"
C7_StepsInOrder ==
  \A r \in Runs :
    pc'[r] # pc[r] => (<<pc[r], pc'[r]>> \in ProgramOrder \/ exc'[r] # "none")

\* C7: a run takes its steps in program order (customers generated, written,
\* products generated, written, orders generated, written); a file is
\* written only from its finished table, a table is generated only after the
\* previous table's file is written; a run that completes has written the
\* three files exactly once each; and a started run in which no write fails
\* completes.
C7_LinearRun ==
  /\ []C7_Order
  /\ [][C7_StepsInOrder]_vars
  /\ \A r \in Runs : (pc[r] = "seed") ~> (pc[r] = "done" \/ exc[r] # "none")

\* C7 witness: a run completed with all three files written.
C7_Witness ==
  \E r \in Runs : pc[r] = "done" /\ Len(CreatedNames(r)) = 3

C9_Aborted ==
  \A r \in Runs :
    exc[r] # "none" =>
      /\ pc[r] = "aborted"
      /\ ~ReportedComplete(r)
      /\ exc[r] = "write_customers" =>
           /\ products_file \notin DOMAIN disk[r]
           /\ OrdersFiles(r) = {}
      /\ exc[r] = "write_products" =>
           /\ OrdersFiles(r) = {}
           /\ customers_file \in DOMAIN disk[r]
           /\ disk[r][customers_file] = to_csv(customers[r])
      /\ exc[r] = "write_orders" =>
           /\ customers_file \in DOMAIN disk[r]
           /\ disk[r][customers_file] = to_csv(customers[r])
           /\ products_file \in DOMAIN disk[r]
           /\ disk[r][products_file] = to_csv(products[r])
C9_NoRetryNoCleanup ==
  \A r \in Runs :
    /\ pc[r] = "aborted" =>
         pc'[r] = "aborted" /\ disk'[r] = disk[r] /\ stdout'[r] = stdout[r]
    /\ \A f \in DOMAIN disk[r] : f \in DOMAIN disk'[r] /\ disk'[r][f] = disk[r][f]

\* C9: a failed write ends the run at that step: the run is aborted with the
\* error, never reports completion and takes no further step (no retry); the
\* files of the later tables are not written, and the files written before
\* stay as they were written (no cleanup).
C9_FailureAborts ==
  /\ []C9_Aborted
  /\ [][C9_NoRetryNoCleanup]_vars

\* C9 witness: writing the products file failed after the customers file
\* was written.
C9_Witness ==
  \E r \in Runs :
    /\ exc[r] = "write_products"
    /\ pc[r] = "aborted"
    /\ Completed(r, customers_file)

\* The columns of a table that are not timestamps.
Timestamps ==
  {"created_date", "updated_date", "updated_at", "order_date", "last_modified_date"}
Untimed(df) == [c \in Range(df.columns) \ Timestamps |-> df.data[c]]
UntimedRows(csv) ==
  [i \in DOMAIN csv.rows |-> [c \in Range(csv.header) \ Timestamps |-> csv.rows[i][c]]]

\* C10: two runs agree on every column that is not a timestamp, on the day
\* offset drawn for every timestamp and on how many values each generator
\* has been asked for, whatever the clock showed during each run.
C10_SameDraws ==
  /\ (customers[1].built /\ customers[2].built) =>
       /\ Untimed(customers[1]) = Untimed(customers[2])
       /\ offsets[1].customers_created = offsets[2].customers_created
       /\ offsets[1].customers_updated = offsets[2].customers_updated
  /\ (products[1].built /\ products[2].built) =>
       /\ Untimed(products[1]) = Untimed(products[2])
       /\ offsets[1].products_created = offsets[2].products_created
       /\ offsets[1].products_updated = offsets[2].products_updated
  /\ (orders[1].built /\ orders[2].built) =>
       /\ Untimed(orders[1]) = Untimed(orders[2])
       /\ offsets[1].order_date = offsets[2].order_date
       /\ offsets[1].last_modified = offsets[2].last_modified
  /\ (pc[1] = "done" /\ pc[2] = "done") =>
       /\ rnd[1] = rnd[2] /\ nprnd[1] = nprnd[2]
       /\ UntimedRows(disk[1][customers_file]) = UntimedRows(disk[2][customers_file])
       /\ UntimedRows(disk[1][products_file]) = UntimedRows(disk[2][products_file])
       /\ \A f \in OrdersFiles(1) : \A g \in OrdersFiles(2) :
            UntimedRows(disk[1][f]) = UntimedRows(disk[2][g])

\* C10 witness: two completed runs whose outputs differ, in a timestamp and
\* in the name of the orders file.
C10_Witness ==
  /\ pc[1] = "done" /\ pc[2] = "done"
  /\ disk[1][customers_file] # disk[2][customers_file]
  /\ OrdersFiles(1) # OrdersFiles(2)

====
